---- MODULE Spec2Model ----
(***************************************************************************)
(* Model of `keadm debug get` (keadm/cmd/keadm/app/cmd/debug/get.go and    *)
(* get_output.go): one invocation of the command, from RunE through        *)
(* initDb, the argument checks, getResult, filterNamespace and             *)
(* printResult with its three output modes.                                *)
(*                                                                         *)
(* Strings that the code splits (record keys, the namespace flag) are      *)
(* sequences of one-character strings; all other strings are TLA+ strings. *)
(* A JSON payload is a record that says, for every path the code reads,    *)
(* whether the value is absent and which JSON type it has.                 *)
(***************************************************************************)
EXTENDS Integers, Sequences, FiniteSets, TLC

\* ------------------------------------------------------------------ bounds

\* longest record list held by the store
MaxRecords == 2

\* longest status.containerStatuses sequence of a pod payload
MaxContainers == 2

\* ------------------------------------------------------------- JSON values

\* a string-typed path of a payload: absent, a JSON string, or another type
Absent == [t |-> "absent", s |-> ""]
Str(x) == [t |-> "string", s |-> x]
NotStr == [t |-> "number", s |-> ""]

\* a JSON number n = whole + (1/2 if half): Go decodes it to float64
Num(w, h) == [t |-> "number", whole |-> w, half |-> h]
NoNum == [t |-> "absent", whole |-> 0, half |-> FALSE]
StrForNum == [t |-> "string", whole |-> 0, half |-> FALSE]

Bool(b) == [t |-> "bool", b |-> b]
NoBool == [t |-> "absent", b |-> FALSE]
StrForBool == [t |-> "string", b |-> FALSE]

\* one element of status.containerStatuses
CS(r, n) == [t |-> "object", ready |-> r, restartCount |-> n]
CSNotObject == [t |-> "string", ready |-> NoBool, restartCount |-> NoNum]

\* containerStatuses whose every element has ready:bool, restartCount:number
GoodCS == {CS(Bool(r), Num(w, h)) : r \in BOOLEAN, w \in {0, 3}, h \in {FALSE}}
            \cup {CS(Bool(TRUE), Num(1, TRUE))}

\* elements on which a type assertion of getReadyAndRestartCount fails
BadCS == {CSNotObject, CS(NoBool, Num(0, FALSE)), CS(StrForBool, Num(0, FALSE)),
          CS(Bool(TRUE), NoNum), CS(Bool(TRUE), StrForNum)}

RECURSIVE SeqsUpTo(_, _)
SeqsUpTo(S, n) ==
  IF n = 0 THEN {<<>>}
  ELSE LET shorter == SeqsUpTo(S, n - 1)
       IN shorter \cup {Append(q, e) : q \in {p \in shorter : Len(p) = n - 1}, e \in S}

\* container-status sequences: every good one, and the ones with one bad
\* element at the front or the back of a good one
CSLists ==
  SeqsUpTo(GoodCS, MaxContainers)
    \cup {<<b>> : b \in BadCS}
    \cup {<<g, b>> : g \in {CS(Bool(TRUE), Num(3, FALSE))}, b \in BadCS}
    \cup {<<b, g>> : g \in {CS(Bool(TRUE), Num(3, FALSE))}, b \in BadCS}

Arr(items) == [t |-> "array", items |-> items]
NoArr == [t |-> "absent", items |-> <<>>]
StrForArr == [t |-> "string", items |-> <<>>]

Metadata(name) == [t |-> "object", name |-> name]
Status(phase, ip, cs) == [t |-> "object", phase |-> phase, podIP |-> ip, containerStatuses |-> cs]
PodSpec(node) == [t |-> "object", nodeName |-> node]
NoMetadata == [t |-> "absent", name |-> Absent]
NoStatus == [t |-> "absent", phase |-> Absent, podIP |-> Absent, containerStatuses |-> NoArr]
NoPodSpec == [t |-> "absent", nodeName |-> Absent]

\* the text of dao.Meta.Value: form says what json.Unmarshal makes of it
\* ("object": a JSON object, "null": the JSON text null, "invalid": no JSON)
Object(av, kind, md, st, sp) ==
  [form |-> "object", apiVersion |-> av, kind |-> kind, metadata |-> md, status |-> st, spec |-> sp]
EmptyObject == Object(Absent, Absent, NoMetadata, NoStatus, NoPodSpec)
InvalidJSON == [EmptyObject EXCEPT !.form = "invalid"]
NullJSON == [EmptyObject EXCEPT !.form = "null"]

PodPayload(name, cs) ==
  Object(Absent, Absent, Metadata(Str(name)), Status(Str("Running"), Str("10.0.0.1"), Arr(cs)), PodSpec(Str("edge1")))
BasePod == PodPayload("web", <<CS(Bool(TRUE), Num(0, FALSE)), CS(Bool(FALSE), Num(3, FALSE))>>)

\* pod payloads with the required shape
GoodPodPayloads == {PodPayload("web", cs) : cs \in SeqsUpTo(GoodCS, MaxContainers)}

\* pod payloads with one required field missing or of the wrong type
BadPodPayloads ==
  {PodPayload("web", cs) : cs \in CSLists \ SeqsUpTo(GoodCS, MaxContainers)}
    \cup {[BasePod EXCEPT !.metadata = m] : m \in {NoMetadata, [NoMetadata EXCEPT !.t = "string"]}}
    \cup {[BasePod EXCEPT !.metadata.name = l] : l \in {Absent, NotStr}}
    \cup {[BasePod EXCEPT !.status = s] : s \in {NoStatus, [NoStatus EXCEPT !.t = "string"]}}
    \cup {[BasePod EXCEPT !.status.phase = l] : l \in {Absent, NotStr}}
    \cup {[BasePod EXCEPT !.status.podIP = l] : l \in {Absent, NotStr}}
    \cup {[BasePod EXCEPT !.status.containerStatuses = a] : a \in {NoArr, StrForArr}}
    \cup {[BasePod EXCEPT !.spec = s] : s \in {NoPodSpec, [NoPodSpec EXCEPT !.t = "string"]}}
    \cup {[BasePod EXCEPT !.spec.nodeName = l] : l \in {Absent, NotStr}}

\* dao.Meta: one row of the meta table
Meta(key, type, value) == [Key |-> key, Type |-> type, Value |-> value]

\* ---------------------------------------------------------- pure functions

\* strings.Split(s, sep) for a one-character separator
RECURSIVE Split(_, _)
Split(s, sep) ==
  IF \A i \in 1..Len(s) : s[i] # sep THEN <<s>>
  ELSE LET i == CHOOSE k \in 1..Len(s) : s[k] = sep /\ \A j \in 1..(k - 1) : s[j] # sep
       IN <<SubSeq(s, 1, i - 1)>> \o Split(SubSeq(s, i + 1, Len(s)), sep)

\* get.go: getNamespaceFromKey
getNamespaceFromKey(key) == Split(key, "/")[1]

\* filterNamespace as it would be if it never read the all-namespaces flag
filterNamespaceIgnoringFlag(result, namespace, flagValue) ==
  SelectSeq(result, LAMBDA v : getNamespaceFromKey(v.Key) = namespace)

\* get.go: filterNamespace (flagValue is the all-namespaces flag)
filterNamespace(result, namespace, flagValue) ==
  IF flagValue THEN result
  ELSE SelectSeq(result, LAMBDA v : getNamespaceFromKey(v.Key) = namespace)

\* get.go:28: the package-level map; nothing assigns it, so it stays nil
availableResourceTypes == {}

\* get.go:36: the map RunE declares with :=, local to RunE
RunEAvailableResourceTypes == {"all", "pod", "node", "service", "secret", "configmap", "endpoint"}

\* a Go map[string][]dao.Meta is a function on the keys it holds; reading a
\* key it does not hold gives the nil slice
MapGet(m, k) == IF k \in DOMAIN m THEN m[k] ELSE <<>>

\* distributeByResourceType as it would be if it appended only to the
\* buckets made from availableResourceTypes
distributeIntoKnownBuckets(metas) ==
  [k \in availableResourceTypes |-> SelectSeq(metas, LAMBDA v : v.Type = k)]

\* get.go: distributeByResourceType
distributeByResourceType(metas) ==
  [k \in availableResourceTypes \cup {metas[i].Type : i \in 1..Len(metas)} |->
     SelectSeq(metas, LAMBDA v : v.Type = k)]

\* int(x) of a float64 x >= 0: the fraction is discarded
IntOfFloat(n) == n.whole

\* getReadyAndRestartCount as it would be if it counted every container as
\* ready
RECURSIVE getReadyAndRestartCountAllReady(_)
getReadyAndRestartCountAllReady(containerStatuses) ==
  IF containerStatuses = <<>> THEN [panic |-> FALSE, ready |-> 0, restarts |-> 0]
  ELSE LET n == Len(containerStatuses)
           before == getReadyAndRestartCountAllReady(SubSeq(containerStatuses, 1, n - 1))
           v == containerStatuses[n]
       IN IF before.panic \/ v.t # "object" \/ v.ready.t # "bool" \/ v.restartCount.t # "number"
          THEN [panic |-> TRUE, ready |-> 0, restarts |-> 0]
          ELSE [panic |-> FALSE,
                ready |-> before.ready + 1,
                restarts |-> before.restarts + IntOfFloat(v.restartCount)]

\* get_output.go: getReadyAndRestartCount; a failed type assertion panics
RECURSIVE getReadyAndRestartCount(_)
getReadyAndRestartCount(containerStatuses) ==
  IF containerStatuses = <<>> THEN [panic |-> FALSE, ready |-> 0, restarts |-> 0]
  ELSE LET n == Len(containerStatuses)
           before == getReadyAndRestartCount(SubSeq(containerStatuses, 1, n - 1))
           v == containerStatuses[n]
       IN IF before.panic \/ v.t # "object" \/ v.ready.t # "bool" \/ v.restartCount.t # "number"
          THEN [panic |-> TRUE, ready |-> 0, restarts |-> 0]
          ELSE [panic |-> FALSE,
                ready |-> before.ready + (IF v.ready.b THEN 1 ELSE 0),
                restarts |-> before.restarts + IntOfFloat(v.restartCount)]

\* fmt.Sprintf("%d/%d", a, b)
SprintfReady(a, b) == ToString(a) \o "/" \o ToString(b)

NoPodInfo == [name |-> "", status |-> "", restarts |-> 0, ready |-> "", ip |-> "", node |-> ""]

\* get_output.go: the body of MetaToPodInfo's loop for one dao.Meta:
\* "error" is the returned json.Unmarshal error, "panic" a failed type assertion
PodInfoOf(v) ==
  LET j == v.Value
      c == getReadyAndRestartCount(j.status.containerStatuses.items)
  IN IF j.form = "invalid" THEN [res |-> "error", info |-> NoPodInfo]
     ELSE IF \/ j.form = "null"
             \/ j.metadata.t # "object"
             \/ j.status.t # "object"
             \/ j.status.containerStatuses.t # "array"
             \/ j.spec.t # "object"
             \/ c.panic
             \/ j.metadata.name.t # "string"
             \/ j.status.phase.t # "string"
             \/ j.status.podIP.t # "string"
             \/ j.spec.nodeName.t # "string"
     THEN [res |-> "panic", info |-> NoPodInfo]
     ELSE [res |-> "ok",
           info |-> [name |-> j.metadata.name.s,
                     status |-> j.status.phase.s,
                     restarts |-> c.restarts,
                     ready |-> SprintfReady(c.ready, Len(j.status.containerStatuses.items)),
                     ip |-> j.status.podIP.s,
                     node |-> j.spec.nodeName.s]]

\* ItemOf as it would be if it kept a kind the payload already has
ItemKeepingPayloadKind(v) ==
  LET jsonMap == IF v.Value.form = "object" THEN v.Value ELSE EmptyObject
      obj == [jsonMap EXCEPT !.apiVersion = Str("v1"),
                             !.kind = IF jsonMap.kind.t = "absent" THEN Str(v.Type) ELSE jsonMap.kind]
  IN IF v.Value.form = "null" THEN [res |-> "panic", item |-> EmptyObject]
     ELSE IF v.Type = "" THEN [res |-> "error", item |-> EmptyObject]
     ELSE [res |-> "ok", item |-> obj]

\* get.go:200-211: one dao.Meta to one list item. The json.Unmarshal error
\* is overwritten unread, so text that is no JSON leaves the map empty; the
\* JSON text null makes the map nil and the assignment into it panics;
\* runtime.Decode rejects an object whose kind is empty.
ItemOf(v) ==
  LET jsonMap == IF v.Value.form = "object" THEN v.Value ELSE EmptyObject
      obj == [jsonMap EXCEPT !.apiVersion = Str("v1"), !.kind = Str(v.Type)]
  IN IF v.Value.form = "null" THEN [res |-> "panic", item |-> EmptyObject]
     ELSE IF v.Type = "" THEN [res |-> "error", item |-> EmptyObject]
     ELSE [res |-> "ok", item |-> obj]

\* get.go:235-251: the UnstructuredList that is marshalled
DisplayList(items) ==
  [kind |-> "List", apiVersion |-> "v1",
   metadata |-> [selfLink |-> "", resourceVersion |-> ""],
   items |-> items]
NoDoc == DisplayList(<<>>)

\* get_output.go:234: what OutputPodInfo writes first
HeaderCells == <<"NAME", "\t", "STAUTS", "\t", "RESTARTS", "\t", "READY", "\t", "IP", "\t", "NODE", "\t">>

\* get_output.go:236: what OutputPodInfo writes for one PodInfo
RowCells(v) ==
  <<"\n", v.name, "\t", v.status, "\t", ToString(v.restarts), "\t", v.ready, "\t", v.ip, "\t", v.node>>

\* ------------------------------------------------------------------ inputs

\* record keys and namespace flag values, as character sequences
KeyDA == <<"d", "/", "a">>
KeyNB == <<"n", "/", "b">>
KeyUpperDC == <<"D", "/", "c">>
KeyDAB == <<"d", "/", "a", "/", "b">>
KeyNoSlash == <<"d", "a">>
KeyEmptyNs == <<"/", "a">>
Keys == {KeyDA, KeyNB, KeyUpperDC, KeyDAB, KeyNoSlash, KeyEmptyNs}
Namespaces == {<<"d">>, <<"D">>, <<"n">>}

NodePayload == Object(Absent, Absent, Metadata(Str("edge1")), NoStatus, NoPodSpec)
\* a payload that carries its own apiVersion and kind
TypedPayload == Object(Str("apps/v1"), Str("Deployment"), Metadata(Str("web")), NoStatus, NoPodSpec)

Flags(output, namespace, allNs) == [output |-> output, namespace |-> namespace, allNamespaces |-> allNs]
Store(openOK, queryOK, rows) == [openOK |-> openOK, queryOK |-> queryOK, rows |-> rows]
Input(a, f, st) == [args |-> a, flags |-> f, store |-> st]

\* the command line in all its forms over a small store
ArgLists == {<<>>, <<"all">>, <<"pod">>, <<"node">>, <<"service">>, <<"widget">>, <<"pod", "node">>}
CmdRows == {Meta(KeyDA, "pod", BasePod), Meta(KeyNB, "node", NodePayload), Meta(KeyDA, "widget", NodePayload)}
CmdInputs ==
  {Input(a, Flags(o, ns, an), Store(open, query, rows)) :
     a \in ArgLists, o \in {"", "json", "yaml", "wide"}, ns \in {<<"d">>, <<"n">>}, an \in BOOLEAN,
     open \in BOOLEAN, query \in BOOLEAN, rows \in SeqsUpTo(CmdRows, MaxRecords)}

\* every key form against every namespace
KeyRows == {Meta(k, "node", NodePayload) : k \in Keys}
KeyInputs ==
  {Input(<<"all">>, Flags("json", ns, an), Store(TRUE, TRUE, rows)) :
     ns \in Namespaces, an \in BOOLEAN, rows \in SeqsUpTo(KeyRows, MaxRecords)}

\* every kind, in and out of the fixed set, and every form of payload
KindRows ==
  {Meta(KeyDA, t, NodePayload) : t \in {"node", "service", "endpoint", "widget", ""}}
    \cup {Meta(KeyDA, "pod", BasePod), Meta(KeyDA, "secret", TypedPayload),
          Meta(KeyDA, "configmap", InvalidJSON), Meta(KeyDA, "node", NullJSON)}
KindInputs ==
  {Input(<<"all">>, Flags(o, <<"d">>, TRUE), Store(TRUE, TRUE, rows)) :
     o \in {"", "json", "yaml"}, rows \in SeqsUpTo(KindRows, MaxRecords)}

\* pod lists: one pod of any payload among pods of the base payload
PodRow(name, value) == Meta(<<"d", "/">> \o <<name>>, "pod", value)
PodLists ==
  {pre \o <<PodRow("s", v)>> \o post :
     v \in GoodPodPayloads \cup BadPodPayloads \cup {InvalidJSON},
     pre \in SeqsUpTo({PodRow("p", BasePod)}, MaxRecords),
     post \in SeqsUpTo({PodRow("q", PodPayload("db", <<>>))}, MaxRecords)}
PodInputs ==
  {Input(<<"pod">>, Flags("", <<"d">>, an), Store(TRUE, TRUE, rows)) :
     an \in BOOLEAN, rows \in {l \in PodLists : Len(l) <= MaxRecords}}

Inputs == CmdInputs \cup KeyInputs \cup KindInputs \cup PodInputs

\* ------------------------------------------------------------------- state

VARIABLES
  pc,            \* the statement the invocation is at
  args,          \* the positional arguments
  flags,         \* the flag values of the command
  store,         \* the meta table and whether it can be opened and queried
  storeLog,      \* every access to the store so far
  namespace,     \* RunE's namespace
  result,        \* RunE's result, printResult's metas
  of,            \* printResult's of
  listItems,     \* printResult's list.Items
  i,             \* the index of the running loop
  byteContent,   \* printResult's byteContent, as the document it encodes
  resultByType,  \* printResult's resultByType
  podMetas,      \* printResult's podMetas
  podInfo,       \* MetaToPodInfo's result
  tw,            \* the tabwriter's buffer
  out,           \* the writes the out io.Writer has received
  outcome        \* how the invocation ended

vars == <<pc, args, flags, store, storeLog, namespace, result, of, listItems, i,
          byteContent, resultByType, podMetas, podInfo, tw, out, outcome>>

Init ==
  /\ \E in \in Inputs : args = in.args /\ flags = in.flags /\ store = in.store
  /\ pc = "RunE"
  /\ storeLog = <<>>
  /\ namespace = <<>>
  /\ result = <<>>
  /\ of = ""
  /\ listItems = <<>>
  /\ i = 0
  /\ byteContent = NoDoc
  /\ resultByType = distributeByResourceType(<<>>)
  /\ podMetas = <<>>
  /\ podInfo = <<>>
  /\ tw = <<>>
  /\ out = <<>>
  /\ outcome = "running"

\* the invocation ends: "ok" is RunE returning nil, "error" RunE returning an
\* error, "fatal" klog.Fatal ending the process, "panic" a runtime panic
End(how) == pc' = "exit" /\ outcome' = how

\* ----------------------------------------------------------------- actions

\* get.go:46, 148-168: RunE opens the store first; a failure is klog.Fatalf
initDb ==
  /\ pc = "RunE"
  /\ storeLog' = Append(storeLog, "register")
  /\ IF store.openOK THEN pc' = "checkArgs" /\ outcome' = outcome ELSE End("fatal")
  /\ UNCHANGED <<args, flags, store, namespace, result, of, listItems, i, byteContent,
                 resultByType, podMetas, podInfo, tw, out>>

\* get.go:47-53: exactly one argument, of an available resource type
checkArgs ==
  /\ pc = "checkArgs"
  /\ IF Len(args) # 1 THEN End("fatal")
     ELSE IF args[1] \notin RunEAvailableResourceTypes THEN End("fatal")
     ELSE pc' = "getNamespaceFromFlag" /\ outcome' = outcome
  /\ UNCHANGED <<args, flags, store, storeLog, namespace, result, of, listItems, i,
                 byteContent, resultByType, podMetas, podInfo, tw, out>>

\* get.go:55-58, 105-108
getNamespaceFromFlag ==
  /\ pc = "getNamespaceFromFlag"
  /\ namespace' = flags.namespace
  /\ pc' = "getResult"
  /\ UNCHANGED <<args, flags, store, storeLog, result, of, listItems, i, byteContent,
                 resultByType, podMetas, podInfo, tw, out, outcome>>

\* get.go:60-63, 82-99: all rows, or the rows of the one type
getResult ==
  /\ pc = "getResult"
  /\ storeLog' = Append(storeLog, "query")
  /\ IF ~store.queryOK THEN End("error") /\ result' = result
     ELSE /\ result' = IF args[1] = "all" THEN store.rows
                       ELSE SelectSeq(store.rows, LAMBDA v : v.Type = args[1])
          /\ pc' = "filterNamespace"
          /\ outcome' = outcome
  /\ UNCHANGED <<args, flags, store, namespace, of, listItems, i, byteContent,
                 resultByType, podMetas, podInfo, tw, out>>

\* get.go:65-68
filterNamespaceCall ==
  /\ pc = "filterNamespace"
  /\ result' = filterNamespace(result, namespace, flags.allNamespaces)
  /\ pc' = "printResult"
  /\ UNCHANGED <<args, flags, store, storeLog, namespace, of, listItems, i, byteContent,
                 resultByType, podMetas, podInfo, tw, out, outcome>>

\* get.go:183-196: printResult reads the output flag and starts the list
printResult ==
  /\ pc = "printResult"
  /\ of' = flags.output
  /\ listItems' = <<>>
  /\ i' = 1
  /\ pc' = "convert"
  /\ UNCHANGED <<args, flags, store, storeLog, namespace, result, byteContent,
                 resultByType, podMetas, podInfo, tw, out, outcome>>

\* convertItem as it would be if it wrote every item as soon as it is
\* converted
convertItemStreaming ==
  /\ pc = "convert"
  /\ i <= Len(result)
  /\ LET c == ItemOf(result[i])
     IN IF c.res = "ok"
        THEN /\ listItems' = Append(listItems, c.item) /\ i' = i + 1 /\ pc' = pc /\ outcome' = outcome
             /\ out' = Append(out, [enc |-> of, text |-> <<"\n">>, doc |-> DisplayList(<<c.item>>)])
        ELSE End(c.res) /\ UNCHANGED <<listItems, i, out>>
  /\ UNCHANGED <<args, flags, store, storeLog, namespace, result, of, byteContent,
                 resultByType, podMetas, podInfo, tw>>

\* get.go:199-219: one turn of the loop that converts metas to list items
convertItem ==
  /\ pc = "convert"
  /\ i <= Len(result)
  /\ LET c == ItemOf(result[i])
     IN IF c.res = "ok"
        THEN listItems' = Append(listItems, c.item) /\ i' = i + 1 /\ pc' = pc /\ outcome' = outcome
        ELSE End(c.res) /\ UNCHANGED <<listItems, i>>
  /\ UNCHANGED <<args, flags, store, storeLog, namespace, result, of, byteContent,
                 resultByType, podMetas, podInfo, tw, out>>

\* get.go:221-256: the list becomes the marshalled display list
marshalList ==
  /\ pc = "convert"
  /\ i > Len(result)
  /\ byteContent' = DisplayList(listItems)
  /\ pc' = "switch"
  /\ UNCHANGED <<args, flags, store, storeLog, namespace, result, of, listItems, i,
                 resultByType, podMetas, podInfo, tw, out, outcome>>

\* get.go:258-261: table mode takes the pod bucket and enters MetaToPodInfo
caseTable ==
  /\ pc = "switch"
  /\ of = ""
  /\ resultByType' = distributeByResourceType(result)
  /\ podMetas' = MapGet(resultByType', "pod")
  /\ podInfo' = <<>>
  /\ i' = 1
  /\ pc' = "MetaToPodInfo"
  /\ UNCHANGED <<args, flags, store, storeLog, namespace, result, of, listItems,
                 byteContent, tw, out, outcome>>

\* MetaToPodInfo as it would be if every summary were written as a row as
\* soon as it is made
MetaToPodInfoStreaming ==
  /\ pc = "MetaToPodInfo"
  /\ i <= Len(podMetas)
  /\ LET p == PodInfoOf(podMetas[i])
     IN IF p.res = "ok"
        THEN /\ podInfo' = Append(podInfo, p.info) /\ i' = i + 1 /\ pc' = pc /\ outcome' = outcome
             /\ out' = Append(out, [enc |-> "table", text |-> RowCells(p.info), doc |-> NoDoc])
        ELSE End(p.res) /\ UNCHANGED <<podInfo, i, out>>
  /\ UNCHANGED <<args, flags, store, storeLog, namespace, result, of, listItems,
                 byteContent, resultByType, podMetas, tw>>

\* get_output.go:197-227: one turn of MetaToPodInfo's loop
MetaToPodInfo ==
  /\ pc = "MetaToPodInfo"
  /\ i <= Len(podMetas)
  /\ LET p == PodInfoOf(podMetas[i])
     IN IF p.res = "ok"
        THEN podInfo' = Append(podInfo, p.info) /\ i' = i + 1 /\ pc' = pc /\ outcome' = outcome
        ELSE End(p.res) /\ UNCHANGED <<podInfo, i>>
  /\ UNCHANGED <<args, flags, store, storeLog, namespace, result, of, listItems,
                 byteContent, resultByType, podMetas, tw, out>>

\* get_output.go:228, 232-234: MetaToPodInfo returns; OutputPodInfo writes the
\* header into the tabwriter
OutputPodInfoHeader ==
  /\ pc = "MetaToPodInfo"
  /\ i > Len(podMetas)
  /\ tw' = HeaderCells
  /\ i' = 1
  /\ pc' = "OutputPodInfo"
  /\ UNCHANGED <<args, flags, store, storeLog, namespace, result, of, listItems,
                 byteContent, resultByType, podMetas, podInfo, out, outcome>>

\* get_output.go:235-237: one row into the tabwriter
OutputPodInfoRow ==
  /\ pc = "OutputPodInfo"
  /\ i <= Len(podInfo)
  /\ tw' = tw \o RowCells(podInfo[i])
  /\ i' = i + 1
  /\ UNCHANGED <<pc, args, flags, store, storeLog, namespace, result, of, listItems,
                 byteContent, resultByType, podMetas, podInfo, out, outcome>>

\* get_output.go:238, 233: the last newline, then the deferred Flush hands
\* the buffer to out; printResult returns nil
OutputPodInfoFlush ==
  /\ pc = "OutputPodInfo"
  /\ i > Len(podInfo)
  /\ tw' = <<>>
  /\ out' = Append(out, [enc |-> "table", text |-> tw \o <<"\n">>, doc |-> NoDoc])
  /\ End("ok")
  /\ UNCHANGED <<args, flags, store, storeLog, namespace, result, of, listItems, i,
                 byteContent, resultByType, podMetas, podInfo>>

\* get.go:266-275: json.Indent, then one Fprintln of the document
caseJSON ==
  /\ pc = "switch"
  /\ of = "json"
  /\ out' = Append(out, [enc |-> "json", text |-> <<"\n">>, doc |-> byteContent])
  /\ End("ok")
  /\ UNCHANGED <<args, flags, store, storeLog, namespace, result, of, listItems, i,
                 byteContent, resultByType, podMetas, podInfo, tw>>

\* get.go:276-288: the same document through yaml.Marshal, one Fprintln
caseYAML ==
  /\ pc = "switch"
  /\ of = "yaml"
  /\ out' = Append(out, [enc |-> "yaml", text |-> <<"\n">>, doc |-> byteContent])
  /\ End("ok")
  /\ UNCHANGED <<args, flags, store, storeLog, namespace, result, of, listItems, i,
                 byteContent, resultByType, podMetas, podInfo, tw>>

\* get.go:257, 289-290: any other output format matches no case
caseNone ==
  /\ pc = "switch"
  /\ of \notin {"", "json", "yaml"}
  /\ End("ok")
  /\ UNCHANGED <<args, flags, store, storeLog, namespace, result, of, listItems, i,
                 byteContent, resultByType, podMetas, podInfo, tw, out>>

Next ==
  \/ initDb
  \/ checkArgs
  \/ getNamespaceFromFlag
  \/ getResult
  \/ filterNamespaceCall
  \/ printResult
  \/ convertItem
  \/ marshalList
  \/ caseTable
  \/ MetaToPodInfo
  \/ OutputPodInfoHeader
  \/ OutputPodInfoRow
  \/ OutputPodInfoFlush
  \/ caseJSON
  \/ caseYAML
  \/ caseNone

Spec == Init /\ [][Next]_vars

\* ------------------------------------------------------------ claim helpers

FixedKinds == {"pod", "node", "service", "secret", "configmap", "endpoint"}
Selectors == FixedKinds \cup {"all"}

BadArgs == Len(args) # 1 \/ args[1] \notin Selectors

\* the part of a key before its first "/" (the whole key when it has none)
NamespaceOf(key) ==
  LET slashes == {k \in 1..Len(key) : key[k] = "/"}
  IN IF slashes = {} THEN key
     ELSE SubSeq(key, 1, (CHOOSE k \in slashes : \A m \in slashes : k <= m) - 1)

\* R is the order-preserving sublist of the elements of L that satisfy P
IsSublistWhere(R, L, P(_)) ==
  LET idx == {k \in 1..Len(L) : P(L[k])}
      nth(j) == CHOOSE k \in idx : Cardinality({m \in idx : m <= k}) = j
  IN /\ Len(R) = Cardinality(idx)
     /\ \A j \in 1..Len(R) : R[j] = L[nth(j)]

\* how many times r occurs in L
Occurrences(L, r) == Cardinality({k \in 1..Len(L) : L[k] = r})

RECURSIVE SumOver(_, _)
SumOver(f, S) ==
  IF S = {} THEN 0
  ELSE LET k == CHOOSE x \in S : TRUE IN f[k] + SumOver(f, S \ {k})

ContainerStatusesOf(v) == v.Value.status.containerStatuses.items
ReadyCountOf(v) ==
  Cardinality({k \in 1..Len(ContainerStatusesOf(v)) : ContainerStatusesOf(v)[k].ready.b})
\* twice the sum of the restartCount values, and the sum of their whole parts
TwiceRestartSumOf(v) ==
  LET cs == ContainerStatusesOf(v)
  IN SumOver([k \in 1..Len(cs) |-> 2 * cs[k].restartCount.whole + (IF cs[k].restartCount.half THEN 1 ELSE 0)],
             1..Len(cs))
WholeRestartSumOf(v) ==
  LET cs == ContainerStatusesOf(v)
  IN SumOver([k \in 1..Len(cs) |-> cs[k].restartCount.whole], 1..Len(cs))

\* a payload that is a JSON object with the shape the summary needs
HasRequiredShape(v) ==
  LET j == v.Value
  IN /\ j.form = "object"
     /\ j.metadata.t = "object" /\ j.metadata.name.t = "string"
     /\ j.status.t = "object" /\ j.status.phase.t = "string" /\ j.status.podIP.t = "string"
     /\ j.spec.t = "object" /\ j.spec.nodeName.t = "string"
     /\ j.status.containerStatuses.t = "array"
     /\ \A k \in 1..Len(j.status.containerStatuses.items) :
          LET c == j.status.containerStatuses.items[k]
          IN c.t = "object" /\ c.ready.t = "bool" /\ c.restartCount.t = "number"

\* a JSON object in which a required field is missing or of the wrong type
LacksRequiredField(v) == v.Value.form = "object" /\ ~HasRequiredShape(v)

\* table mode has summarized every pod of the list
Summarized == pc = "OutputPodInfo" \/ (pc = "exit" /\ outcome = "ok" /\ of = "" /\ out # <<>>)

\* the row of the table for summary s, all fields but restarts
SummaryMatches(s, v) ==
  /\ s.name = v.Value.metadata.name.s
  /\ s.status = v.Value.status.phase.s
  /\ s.ip = v.Value.status.podIP.s
  /\ s.node = v.Value.spec.nodeName.s
  /\ s.ready = ToString(ReadyCountOf(v)) \o "/" \o ToString(Len(ContainerStatusesOf(v)))
  /\ ReadyCountOf(v) <= Len(ContainerStatusesOf(v))

\* the write that the out stream received first
TableWritten == out # <<>> /\ out[1].enc = "table"
JSONWritten == out # <<>> /\ out[1].enc = "json"

\* the lines of a text, split at its "\n" cells, and the titles of a line
LinesOf(text) == Split(text, "\n")
TitlesOf(line) == SelectSeq(line, LAMBDA c : c # "\t")
PodsOf(L) == SelectSeq(L, LAMBDA v : v.Type = "pod")

\* ------------------------------------------------------------------ claims

\* C1: an invocation whose arguments are not exactly one member of the fixed
\* selector set never touches the store: no registration and no read.
C1_BadArgsNeverTouchStore == BadArgs => storeLog = <<>>

\* C2: filterNamespace returns its input unchanged when all-namespaces is
\* set, and otherwise exactly the order-preserving sublist of the records
\* whose key's part before the first "/" equals the namespace.
C2_FilterNamespace ==
  [][pc = "filterNamespace" =>
       IF flags.allNamespaces THEN result' = result
       ELSE IsSublistWhere(result', result, LAMBDA v : NamespaceOf(v.Key) = namespace)]_vars

\* C2 witness: a filtered run that kept some records and dropped others
C2_Witness ==
  /\ pc = "printResult" /\ args = <<"all">> /\ ~flags.allNamespaces
  /\ 0 < Len(result) /\ Len(result) < Len(store.rows)

\* C3 as stated: one summary per well-shaped pod in input order, ready shown
\* as <ready count>/<container count>, restarts the sum of the restartCount
\* values.
C3_SummaryIsSum ==
  (Summarized /\ \A k \in 1..Len(podMetas) : HasRequiredShape(podMetas[k])) =>
     /\ Len(podInfo) = Len(podMetas)
     /\ \A k \in 1..Len(podInfo) :
          /\ SummaryMatches(podInfo[k], podMetas[k])
          /\ 2 * podInfo[k].restarts = TwiceRestartSumOf(podMetas[k])

\* C3 amended: as C3, with restarts the sum of the whole parts of the
\* restartCount values (the plain sum when every value is a whole number).
C3_SummaryIsTruncatedSum ==
  (Summarized /\ \A k \in 1..Len(podMetas) : HasRequiredShape(podMetas[k])) =>
     /\ Len(podInfo) = Len(podMetas)
     /\ \A k \in 1..Len(podInfo) :
          /\ SummaryMatches(podInfo[k], podMetas[k])
          /\ podInfo[k].restarts = WholeRestartSumOf(podMetas[k])

\* C3 witness: ready flags [true, false] and restart counts [0, 3] summarized
\* as "1/2" and 3, after another pod
C3_Witness ==
  /\ Summarized /\ Len(podInfo) = 2
  /\ podMetas[2].Value = BasePod
  /\ podInfo[2].ready = "1/2" /\ podInfo[2].restarts = 3

\* C4: a pod whose payload lacks a required field, or has it with the wrong
\* type, makes the summary end with a returned decode error and no output,
\* never with a runtime panic.
C4_MissingFieldIsDecodeError ==
  (pc = "exit" /\ \E k \in 1..Len(podMetas) : LacksRequiredField(podMetas[k])) =>
     outcome = "error" /\ out = <<>>

\* C5: the keys of distribute's result are exactly the fixed kinds.
C5_BucketsAreFixedKinds ==
  pc \in {"MetaToPodInfo", "OutputPodInfo"} => DOMAIN resultByType = FixedKinds

\* C6: reading a fixed kind K from distribute's result gives exactly the
\* records of kind K in list order, and a record of a fixed kind is in the
\* bucket of its own kind, once per occurrence in the list, and in no other.
C6_BucketHoldsItsKind ==
  pc \in {"MetaToPodInfo", "OutputPodInfo"} =>
     /\ \A K \in FixedKinds :
          IsSublistWhere(MapGet(resultByType, K), result, LAMBDA v : v.Type = K)
     /\ \A k \in 1..Len(result) : result[k].Type \in FixedKinds =>
          \A b \in DOMAIN resultByType :
             Occurrences(resultByType[b], result[k]) =
               IF b = result[k].Type THEN Occurrences(result, result[k]) ELSE 0

\* C6 witness: two records of different fixed kinds distributed
C6_Witness ==
  /\ pc = "MetaToPodInfo" /\ Len(result) = 2
  /\ result[1].Type = "node" /\ result[2].Type = "pod"
  /\ Len(podMetas) = 1

\* C7: a successful JSON render writes a List/v1 envelope with one item per
\* record, in order, each item with apiVersion v1 and the record's own kind,
\* whatever apiVersion and kind the payload had.
C7_JSONEnvelope ==
  (JSONWritten /\ outcome = "ok") =>
     LET doc == out[1].doc
     IN /\ Len(out) = 1
        /\ doc.kind = "List" /\ doc.apiVersion = "v1"
        /\ Len(doc.items) = Len(result)
        /\ \A k \in 1..Len(result) :
             /\ doc.items[k].apiVersion = Str("v1")
             /\ doc.items[k].kind = Str(result[k].Type)
             /\ doc.items[k].metadata = (IF result[k].Value.form = "object"
                                         THEN result[k].Value.metadata ELSE NoMetadata)

\* C7 witness: two records written, one with its own apiVersion and kind
C7_Witness ==
  /\ JSONWritten /\ outcome = "ok" /\ Len(result) = 2
  /\ result[1].Value = TypedPayload /\ result[2].Type = "pod"

\* C8: the table is the header NAME STATUS RESTARTS READY IP NODE, then one
\* row per pod record of the list, and ends with a newline.
C8_TableHeaderAndRows ==
  TableWritten =>
     LET text == out[1].text
         lines == LinesOf(text)
     IN /\ TitlesOf(lines[1]) = <<"NAME", "STATUS", "RESTARTS", "READY", "IP", "NODE">>
        /\ Len(lines) = Len(PodsOf(result)) + 2
        /\ lines[Len(lines)] = <<>>
        /\ text[Len(text)] = "\n"

\* C9: in JSON and YAML mode the document is complete before the one write:
\* a render that ends with an error (or a panic) has written nothing, and a
\* write happens only as the last step, with every record converted.
C9_NoPartialDocument ==
  flags.output \in {"json", "yaml"} =>
     /\ outcome \in {"error", "panic"} => out = <<>>
     /\ out # <<>> =>
          /\ pc = "exit" /\ outcome = "ok" /\ Len(out) = 1
          /\ Len(listItems) = Len(result)
          /\ out[1].doc = DisplayList(listItems)

\* C9 witness: a JSON render that failed on its second record
C9_Witness ==
  /\ flags.output = "json" /\ pc = "exit" /\ outcome = "error"
  /\ Len(listItems) = 1 /\ i = 2 /\ out = <<>>

\* C10: in table mode nothing reaches the output before every record is
\* converted and every pod summarized: a render that fails, on whichever
\* pod, has written nothing.
C10_TableWritesAfterSummary ==
  flags.output = "" =>
     /\ outcome \in {"error", "panic"} => out = <<>>
     /\ out # <<>> =>
          /\ Len(listItems) = Len(result)
          /\ Len(podInfo) = Len(PodsOf(result))

\* C10 witness: table mode failed on the second pod, after one summary
C10_Witness ==
  /\ flags.output = "" /\ pc = "exit" /\ outcome \in {"error", "panic"}
  /\ Len(podMetas) >= 2 /\ Len(podInfo) = 1 /\ i = 2 /\ out = <<>>

====
